---- MODULE Spec2Model ----
(***************************************************************************)
(* Model of the Brambl-JS key manager (src/src/modules/KeyManager.js):     *)
(* the keystore codec (dump / marshal / recover and the primitives they    *)
(* call) as operators, and the KeyManager class as a state machine.        *)
(*                                                                         *)
(* Bytes are digits below ByteBase (256 in the program) and base-58 text   *)
(* is a sequence of alphabet indices below AlphaBase (58 in the program);  *)
(* index 0 is the character "1".  The third-party primitives (scrypt,      *)
(* keccak256, blake2b, aes-256-ctr, curve25519) are modelled by small      *)
(* functions that keep the algebra the program relies on: the hashes and   *)
(* the key derivation are collision free on the model's inputs, and the    *)
(* cipher is a counter-mode stream cipher, keyed by the whole derived key  *)
(* and the iv, whose decryption inverts its encryption.                    *)
(*                                                                         *)
(* The request layer (src/src/modules/Requests.js) and the Brambl class    *)
(* (src/src/Brambl.js) follow: their methods as operators, a call in       *)
(* flight as a record that the node's answer settles.                      *)
(***************************************************************************)
EXTENDS Integers, Sequences, FiniteSets, TLC

VARIABLES
  km,         \* the KeyManager instance: pk, #sk, #isLocked, #password, #keyStorage
  built,      \* how the instance was constructed, and from what
  last,       \* the last call on the key manager and its outcome
  made,       \* the arguments of the codec's last marshal
  keyfile,    \* the keystore record the codec works on
  tampered,   \* the field of keyfile edited since marshal wrote it
  recovered,  \* the codec's last recover: arguments and outcome
  disk,       \* the file exportToFile wrote last
  peer,       \* a second KeyManager instance of the same process
  requests,   \* the Requests instance: networkPrefix, url, apiKey, headers
  brambl,     \* the Brambl instance: #networkPrefix, requests, keyManager
  call        \* the last call on the request layer: its arguments, the
              \* requests it has sent, the node's answer and its outcome

vars == <<km, built, last, made, keyfile, tampered, recovered, disk, peer,
          requests, brambl, call>>
kmVars == <<km, built, last, disk, peer>>
codecVars == <<made, keyfile, tampered, recovered>>
bramblVars == <<requests, brambl, call>>

\* const x = v; ... : v is evaluated once and the rest reads its value
Const(v, Rest(_)) == CHOOSE r \in {Rest(x) : x \in {v}} : TRUE

\* ------------------------------------------------------------ scale ------
ByteBase == 4
AlphaBase == 3
\* number of values the random source may return on one call
MaxRand == 2
\* passwords are the strings of at most one byte below NumPasswords + 1
NumPasswords == 2
\* messages offered to sign
NumMessages == 2

\* defaultOptions, scaled: ivBytes 16, scrypt.dkLen 32, scrypt.n 2^18
ivBytes == 2
dkLen == 4
scryptN == 2
\* getMAC keys the hash with derivedKey.slice(16, 32)
macSliceStart == 2
macSliceEnd == 4
\* aes-256-ctr takes a 32 byte key and a 16 byte iv
aesKeyBytes == 4
aesIvBytes == 2
\* bifrostBlake2b is created with digestLength 32
digestLength == 2

Byte == 0 .. (ByteBase - 1)
Char == 0 .. (AlphaBase - 1)

\* JavaScript values: strings (of characters), Buffers (of bytes), undefined
Str(s) == [t |-> "string", v |-> s]
Buf(b) == [t |-> "buffer", v |-> b]
Undefined == [t |-> "undefined", v |-> <<>>]

\* a property read of an object that is not there
NoParams == [t |-> "undefined", dkLen |-> 0, n |-> 0]
NoCipherParams == [t |-> "undefined", iv |-> Undefined]
\* the object {}
EmptyCrypto ==
  [t |-> "object", cipher |-> "undefined", cipherText |-> Undefined,
   cipherParams |-> NoCipherParams, mac |-> Undefined, kdf |-> "undefined",
   kdfSalt |-> Undefined]
NoCrypto == [EmptyCrypto EXCEPT !.t = "undefined"]
NoOptions ==
  [t |-> "undefined", cipher |-> "undefined", ivBytes |-> 0,
   scrypt |-> NoParams, kdfParams |-> NoParams]

\* JavaScript truthiness of a string or undefined
Truthy(x) == x.t # "undefined" /\ x.v # <<>>

\* the outcome of a call: a returned value or a thrown error, with the
\* primitives the call reached, in order
Return(x, log) == [ok |-> TRUE, err |-> "", val |-> x, calls |-> log]
Throw(e, log) == [ok |-> FALSE, err |-> e, val |-> Undefined, calls |-> log]

\* ------------------------------------------------------------ helpers ----
RECURSIVE SeqSum(_)
SeqSum(s) == IF s = <<>> THEN 0 ELSE Head(s) + SeqSum(Tail(s))

RECURSIVE Pow(_, _)
Pow(b, e) == IF e = 0 THEN 1 ELSE b * Pow(b, e - 1)

\* the number whose big-endian digits in base b are s
RECURSIVE FromDigits(_, _)
FromDigits(s, b) ==
  IF s = <<>> THEN 0
  ELSE FromDigits(SubSeq(s, 1, Len(s) - 1), b) * b + s[Len(s)]

\* the big-endian digits of n in base b; the digits of 0 are <<0>>
RECURSIVE ToDigits(_, _)
ToDigits(n, b) ==
  IF n < b THEN <<n>> ELSE Append(ToDigits(n \div b, b), n % b)

\* the n low digits of x in base b, big-endian, zero padded
RECURSIVE FixedDigits(_, _, _)
FixedDigits(x, n, b) ==
  IF n = 0 THEN <<>> ELSE Append(FixedDigits(x \div b, n - 1, b), x % b)

\* the number of leading zeros of s, not counting its last element
RECURSIVE LeadingZeros(_)
LeadingZeros(s) ==
  IF Len(s) > 1 /\ Head(s) = 0 THEN 1 + LeadingZeros(Tail(s)) ELSE 0

Zeros(n) == [i \in 1 .. n |-> 0]

\* an injective numbering of byte strings (length and content)
ByteCode(s) == FromDigits(<<1>> \o s, ByteBase)

\* Buffer.slice(from, to), zero based, end exclusive, clamped to the buffer
slice(buf, from, to) ==
  LET hi == IF to > Len(buf) THEN Len(buf) ELSE to
  IN  IF from >= hi THEN <<>> ELSE SubSeq(buf, from + 1, hi)

\* ------------------------------------------------------------ base-58 ----
\* Base58.encode: the number the bytes spell, in the alphabet's base, behind
\* one "1" per leading zero byte
Base58encode(buf) ==
  IF buf = <<>> THEN <<>>
  ELSE Zeros(LeadingZeros(buf)) \o ToDigits(FromDigits(buf, ByteBase), AlphaBase)

Base58decode_noLeadingZeros(str) ==
  IF str = <<>> THEN <<>>
  ELSE ToDigits(FromDigits(str, AlphaBase), ByteBase)

\* Base58.decode: the inverse conversion
Base58decode(str) ==
  IF str = <<>> THEN <<>>
  ELSE Zeros(LeadingZeros(str)) \o ToDigits(FromDigits(str, AlphaBase), ByteBase)

str2buf_utf8(x, enc) ==
  IF x.t # "string" \/ x.v = <<>> THEN x ELSE Buf(x.v)

\* falsy strings and non-strings are returned as they are
str2buf(x, enc) ==
  IF x.t # "string" \/ x.v = <<>> THEN x
  ELSE IF enc = "utf8" THEN Buf(x.v)
  ELSE Buf(Base58decode(x.v))

\* ------------------------------------------------------------ primitives -
\* crypto.getCiphers()
Ciphers == {"aes-256-ctr"}

isCipherAvailable_any(cipher) == TRUE

isCipherAvailable(cipher) == \E name \in Ciphers : name = cipher

\* the counter-mode keystream byte at position i
KeyStream(key, iv, i) ==
  (key[((i - 1) % Len(key)) + 1] + iv[((i - 1) % Len(iv)) + 1] + SeqSum(iv)) % ByteBase

\* crypto.createCipheriv / createDecipheriv reject keys and ivs of the
\* wrong type or size
CipherivError(key, iv) ==
  IF key.t # "buffer" \/ Len(key.v) # aesKeyBytes THEN "Invalid key length"
  ELSE IF iv.t # "buffer" \/ Len(iv.v) # aesIvBytes THEN "Invalid IV length"
  ELSE ""

encrypt(plaintext, key, iv, algo) ==
  IF ~isCipherAvailable(algo) THEN Throw(algo \o " is not available", <<>>)
  ELSE LET k  == str2buf(key, "")
           v  == str2buf(iv, "")
           pt == str2buf(plaintext, "")
       IN  IF CipherivError(k, v) # "" THEN Throw(CipherivError(k, v), <<>>)
           ELSE IF pt.t # "buffer" THEN Throw("TypeError", <<>>)
           ELSE Return(Buf([i \in 1 .. Len(pt.v) |->
                             (pt.v[i] + KeyStream(k.v, v.v, i)) % ByteBase]),
                       <<"encrypt">>)

decrypt(ciphertext, key, iv, algo) ==
  IF ~isCipherAvailable(algo) THEN Throw(algo \o " is not available", <<>>)
  ELSE LET k  == str2buf(key, "")
           v  == str2buf(iv, "")
           ct == str2buf(ciphertext, "")
       IN  IF CipherivError(k, v) # "" THEN Throw(CipherivError(k, v), <<>>)
           ELSE IF ct.t # "buffer" THEN Throw("TypeError", <<>>)
           ELSE Return(Buf([i \in 1 .. Len(ct.v) |->
                             (ct.v[i] + ByteBase - KeyStream(k.v, v.v, i)) % ByteBase]),
                       <<"decrypt">>)

\* keccak256 digest: collision free
keccak256(msg) ==
  [i \in 1 .. Len(msg) |-> (msg[Len(msg) + 1 - i] + i) % ByteBase]

getMAC_keyOnly(derivedKey, ciphertext) ==
  IF derivedKey.t = "undefined" \/ ciphertext.t = "undefined" THEN Return(Undefined, <<>>)
  ELSE LET dk == str2buf(derivedKey, "")
           ct == str2buf(ciphertext, "")
       IN  IF dk.t # "buffer" \/ ct.t # "buffer" THEN Throw("TypeError", <<>>)
           ELSE Return(Buf(keccak256(slice(dk.v, macSliceStart, macSliceEnd))),
                       <<"getMAC">>)

getMAC_noKey(derivedKey, ciphertext) ==
  IF derivedKey.t = "undefined" \/ ciphertext.t = "undefined" THEN Return(Undefined, <<>>)
  ELSE LET dk == str2buf(derivedKey, "")
           ct == str2buf(ciphertext, "")
       IN  IF dk.t # "buffer" \/ ct.t # "buffer" THEN Throw("TypeError", <<>>)
           ELSE Return(Buf(keccak256(ct.v)), <<"getMAC">>)

getMAC(derivedKey, ciphertext) ==
  IF derivedKey.t = "undefined" \/ ciphertext.t = "undefined" THEN Return(Undefined, <<>>)
  ELSE LET dk == str2buf(derivedKey, "")
           ct == str2buf(ciphertext, "")
       IN  IF dk.t # "buffer" \/ ct.t # "buffer" THEN Throw("TypeError", <<>>)
           ELSE Return(Buf(keccak256(slice(dk.v, macSliceStart, macSliceEnd) \o ct.v)),
                       <<"getMAC">>)

\* bifrostBlake2b of the random bytes numbered r: collision free
bifrostBlake2b(r) == FixedDigits(3 * r, digestLength, ByteBase)

\* the public key curve25519 derives from a private key
PublicOf(sk) == [i \in 1 .. Len(sk) |-> (sk[i] + 1) % ByteBase]

\* create, synchronous: the key pair is generated from the hash of one random
\* draw, the iv and the salt are hashes of two more
create(params, r1, r2, r3) ==
  [publicKey  |-> Buf(PublicOf(bifrostBlake2b(r1))),
   privateKey |-> Buf(bifrostBlake2b(r1)),
   iv         |-> Buf(slice(bifrostBlake2b(r2), 0, params.ivBytes)),
   salt       |-> Buf(bifrostBlake2b(r3))]

\* crypto.scryptSync: collision free in (password, n) for a given salt; the
\* second half of the key and the first half are derived differently
scryptSync(password, salt, len, N) ==
  LET half == Pow(ByteBase, macSliceEnd - macSliceStart)
      hi   == (ByteCode(password) + 2 * ByteBase * (N - 1) + ByteCode(salt)) % half
      lo   == ByteCode(salt) + 3 * ByteCode(password) + N
  IN  FixedDigits(lo * half + hi, len, ByteBase)

\* deriveKey, synchronous
deriveKey(password, salt, kdfParams) ==
  IF password.t = "undefined" \/ salt.t = "undefined" \/ salt = Str(<<>>)
  THEN Throw("Must provide password and salt to derive a key", <<>>)
  ELSE IF kdfParams.t = "undefined" THEN Throw("TypeError", <<>>)
  ELSE Return(Buf(scryptSync(str2buf(password, "utf8").v, str2buf(salt, "").v,
                             kdfParams.dkLen, kdfParams.n)),
              <<"deriveKey">>)

\* the primitives of an inner call come after those already made
After(log, r) == [r EXCEPT !.calls = log \o @]

\* ------------------------------------------------------------ codec ------
marshal(derivedKey, keyObject, salt, iv, algo) ==
  Const(encrypt(keyObject.privateKey, derivedKey, iv, algo), LAMBDA ciphertext :
  Const(getMAC(derivedKey, ciphertext.val), LAMBDA mac :
      IF ~ciphertext.ok THEN ciphertext
      ELSE IF ~mac.ok THEN After(ciphertext.calls, mac)
      ELSE Return([t |-> "object",
                   publicKeyId |-> Str(Base58encode(keyObject.publicKey.v)),
                   crypto |-> [t |-> "object",
                               cipher |-> algo,
                               cipherText |-> Str(Base58encode(ciphertext.val.v)),
                               cipherParams |-> [t |-> "object",
                                                 iv |-> Str(Base58encode(iv.v))],
                               mac |-> Str(Base58encode(mac.val.v)),
                               kdf |-> "scrypt",
                               kdfSalt |-> Str(Base58encode(salt.v))]],
                  ciphertext.calls \o mac.calls)))

\* dump, synchronous: options.kdfParams || options.scrypt
dump(password, keyObject, options) ==
  LET kdfParams  == IF options.kdfParams.t # "undefined"
                    THEN options.kdfParams ELSE options.scrypt
      iv         == str2buf(keyObject.iv, "")
      salt       == str2buf(keyObject.salt, "")
      privateKey == str2buf(keyObject.privateKey, "")
      publicKey  == str2buf(keyObject.publicKey, "")
  IN  Const(deriveKey(password, salt, kdfParams), LAMBDA derivedKey :
        IF ~derivedKey.ok THEN derivedKey
        ELSE After(derivedKey.calls,
                   marshal(derivedKey.val,
                           [privateKey |-> privateKey, publicKey |-> publicKey],
                           salt, iv, options.cipher)))

verifyAndDecrypt_decryptFirst(derivedKey, iv, ciphertext, mac, algo) ==
  Const(decrypt(ciphertext, derivedKey, iv, algo), LAMBDA plain :
  Const(getMAC(derivedKey, ciphertext), LAMBDA m :
      IF ~plain.ok THEN plain
      ELSE IF ~m.ok THEN After(plain.calls, m)
      ELSE IF m.val.t # "buffer" \/ mac.t # "buffer"
      THEN Throw("TypeError", plain.calls \o m.calls)
      ELSE IF m.val # mac
      THEN Throw("message authentication code mismatch", plain.calls \o m.calls)
      ELSE Return(plain.val, plain.calls \o m.calls)))

verifyAndDecrypt(derivedKey, iv, ciphertext, mac, algo) ==
  Const(getMAC(derivedKey, ciphertext), LAMBDA m :
      IF ~m.ok THEN m
      ELSE IF m.val.t # "buffer" \/ mac.t # "buffer" THEN Throw("TypeError", m.calls)
      ELSE IF m.val # mac THEN Throw("message authentication code mismatch", m.calls)
      ELSE After(m.calls, decrypt(ciphertext, derivedKey, iv, algo)))

\* recover, synchronous
recover(password, keyStorage, kdfParams) ==
  IF keyStorage.crypto.t = "undefined" \/ keyStorage.crypto.cipherParams.t = "undefined"
  THEN Throw("TypeError", <<>>)
  ELSE LET iv         == str2buf(keyStorage.crypto.cipherParams.iv, "")
           salt       == str2buf(keyStorage.crypto.kdfSalt, "")
           ciphertext == str2buf(keyStorage.crypto.cipherText, "")
           mac        == str2buf(keyStorage.crypto.mac, "")
           algo       == keyStorage.crypto.cipher
       IN  Const(deriveKey(password, salt, kdfParams), LAMBDA derivedKey :
             IF ~derivedKey.ok THEN derivedKey
             ELSE After(derivedKey.calls,
                        verifyAndDecrypt(derivedKey.val, iv, ciphertext, mac, algo)))

\* ------------------------------------------------------------ options ----
scryptDefaults == [t |-> "object", dkLen |-> dkLen, n |-> scryptN]

defaultOptions ==
  [t |-> "object", cipher |-> "aes-256-ctr", ivBytes |-> ivBytes,
   scrypt |-> scryptDefaults, kdfParams |-> NoParams]

\* constants a caller may supply: the defaults spelled out, the defaults
\* with a cheaper key derivation given as kdfParams, and the same cheaper
\* derivation given as scrypt
CallerConstants ==
  {defaultOptions,
   [defaultOptions EXCEPT !.kdfParams = [scryptDefaults EXCEPT !.n = scryptN - 1]],
   [defaultOptions EXCEPT !.scrypt = [scryptDefaults EXCEPT !.n = scryptN - 1]]}

Passwords == {<<>>} \cup {<<c>> : c \in 1 .. NumPasswords}
Rand == 0 .. (MaxRand - 1)
Messages == {<<c>> : c \in 1 .. NumMessages}

\* ------------------------------------------------------------ KeyManager --
\* no instance: what a constructor that threw leaves the caller with
NoInstance ==
  [alive |-> FALSE, pk |-> Undefined, isLocked |-> FALSE, password |-> Undefined,
   keyStorage |-> [t |-> "undefined", publicKeyId |-> Undefined, crypto |-> NoCrypto],
   sk |-> Undefined, constants |-> NoOptions]

Fail(e, this) == [ok |-> FALSE, err |-> e, this |-> this]
Done(this) == [ok |-> TRUE, err |-> "", this |-> this]

initKeyStorage_noRecover(this, keyStorage, password) ==
  IF keyStorage.t # "object" THEN Fail("TypeError", this)
  ELSE Done([this EXCEPT !.pk = keyStorage.publicKeyId,
                         !.isLocked = FALSE,
                         !.password = password,
                         !.keyStorage = keyStorage])

initKeyStorage(this, keyStorage, password) ==
  IF keyStorage.t # "object" THEN Fail("TypeError", this)
  ELSE LET set == [this EXCEPT !.pk = keyStorage.publicKeyId,
                               !.isLocked = FALSE,
                               !.password = password,
                               !.keyStorage = keyStorage]
       IN  IF ~Truthy(set.pk) THEN Done(set)
           ELSE Const(recover(password, keyStorage, this.constants.scrypt), LAMBDA sk :
                  IF ~sk.ok THEN Fail(sk.err, set)
                  ELSE Done([set EXCEPT !.sk = sk.val]))

generateKey(this, password, r1, r2, r3) ==
  Const(create(this.constants, r1, r2, r3), LAMBDA keyObject :
  Const(dump(password, keyObject, this.constants), LAMBDA keyStorage :
      IF ~keyStorage.ok THEN Fail(keyStorage.err, this)
      ELSE initKeyStorage(this, keyStorage.val, password)))

\* file: what fs.readFileSync and JSON.parse make of the path
importFromFile(this, file, password) ==
  IF file.kind = "missing" THEN Fail("ENOENT", this)
  ELSE IF file.kind = "garbage" THEN Fail("SyntaxError", this)
  ELSE initKeyStorage(this, file.json, password)

constructor(params, file, r1, r2, r3) ==
  IF params.t # "string" /\ ~Truthy(params.password)
  THEN Fail("A password must be provided at initialization", NoInstance)
  ELSE LET constants == IF params.constants.t # "undefined"
                        THEN params.constants ELSE defaultOptions
       IN  Const(initKeyStorage([NoInstance EXCEPT !.constants = constants],
                                [t |-> "object", publicKeyId |-> Str(<<>>),
                                 crypto |-> EmptyCrypto],
                                Str(<<>>)).this,
                 LAMBDA this :
             IF Truthy(params.keyPath)
             THEN Const(importFromFile(this, file, params.password), LAMBDA imported :
                    IF imported.ok THEN imported
                    ELSE Fail("Error importing keyfile - " \o imported.err,
                              imported.this))
             ELSE IF params.t = "string"
                  THEN generateKey(this, Str(params.v), r1, r2, r3)
                  ELSE generateKey(this, params.password, r1, r2, r3))

OtherInstance_staticLock(that, this) ==
  IF that.alive /\ this.alive THEN [that EXCEPT !.isLocked = this.isLocked] ELSE that

\* #sk, #isLocked, #password and #keyStorage are fields of each instance:
\* what a method that ran on one instance, leaving it as this, makes of
\* another instance, that
OtherInstance(that, this) == that

\* curve25519.sign: a signature names the signing key pair, the message and
\* the random bytes; keys of the wrong type or size are rejected
curve25519sign(sk, msg, random) ==
  IF sk.t # "buffer" \/ Len(sk.v) # digestLength \/ msg.t # "buffer"
  THEN Throw("TypeError", <<>>)
  ELSE Return(Buf(PublicOf(sk.v) \o <<random>> \o msg.v), <<"sign">>)

\* curve25519.verify: whether the signature was made over msg by the private
\* key of pk, whatever random bytes went into it
curve25519verify(pk, msg, sig) ==
  /\ pk.t = "buffer" /\ msg.t = "buffer" /\ sig.t = "buffer"
  /\ Len(pk.v) = digestLength
  /\ Len(sig.v) = digestLength + 1 + Len(msg.v)
  /\ SubSeq(sig.v, 1, digestLength) = pk.v
  /\ SubSeq(sig.v, digestLength + 2, Len(sig.v)) = msg.v

Bool(b) == [t |-> "boolean", v |-> b]

\* static verify; cb is "function" when a callback is given. The callback
\* branch reads the undeclared name sug, which throws before cb is called
verify(publicKey, message, signature, cb) ==
  LET pk  == str2buf(publicKey, "")
      msg == str2buf(message, "utf8")
      sig == str2buf(signature, "")
  IN  IF cb # "function" THEN Return(Bool(curve25519verify(pk, msg, sig)), <<"verify">>)
      ELSE Throw("ReferenceError: sug is not defined", <<>>)

getKeyStorage_pkFirst(this) ==
  IF ~Truthy(this.pk)
  THEN Throw("A key must be initialized before using this key manager", <<>>)
  ELSE IF this.isLocked
  THEN Throw("Key manager is currently locked. Please unlock and try again.", <<>>)
  ELSE Return(this.keyStorage, <<>>)

getKeyStorage(this) ==
  IF this.isLocked
  THEN Throw("Key manager is currently locked. Please unlock and try again.", <<>>)
  ELSE IF ~Truthy(this.pk)
  THEN Throw("A key must be initialized before using this key manager", <<>>)
  ELSE Return(this.keyStorage, <<>>)

lockKey_rejectsLocked(this) ==
  IF this.isLocked THEN Fail("The key is already locked", this)
  ELSE Done([this EXCEPT !.isLocked = TRUE])

lockKey_forgetsKey(this) ==
  Done([this EXCEPT !.isLocked = TRUE, !.pk = Str(<<>>)])

lockKey(this) == Done([this EXCEPT !.isLocked = TRUE])

unlockKey_passwordFirst(this, password) ==
  IF password # this.password THEN Fail("Invalid password", this)
  ELSE IF ~this.isLocked THEN Fail("The key is already unlocked", this)
  ELSE Done([this EXCEPT !.isLocked = FALSE])

unlockKey_unlockFirst(this, password) ==
  IF ~this.isLocked THEN Fail("The key is already unlocked", this)
  ELSE IF password # this.password
  THEN Fail("Invalid password", [this EXCEPT !.isLocked = FALSE])
  ELSE Done([this EXCEPT !.isLocked = FALSE])

unlockKey_anyPassword(this, password) ==
  IF ~this.isLocked THEN Fail("The key is already unlocked", this)
  ELSE Done([this EXCEPT !.isLocked = FALSE])

unlockKey(this, password) ==
  IF ~this.isLocked THEN Fail("The key is already unlocked", this)
  ELSE IF password # this.password THEN Fail("Invalid password", this)
  ELSE Done([this EXCEPT !.isLocked = FALSE])

sign(this, message, random) ==
  IF this.isLocked
  THEN Throw("The key is currently locked. Please unlock and try again.", <<>>)
  ELSE curve25519sign(str2buf(this.sk, ""), str2buf(message, "utf8"), random)

\* ------------------------------------------------------------ files ------
\* JSON.stringify of an object: its members in order, those whose value is
\* undefined left out
Defined(member) == member.value.t # "undefined"

Name(x) == [t |-> IF x = "undefined" THEN "undefined" ELSE "name", v |-> x]

JSONstringify(keyStorage) ==
  LET c == keyStorage.crypto
      params == IF c.cipherParams.t = "undefined" THEN Undefined
                ELSE [t |-> "json",
                      members |-> SelectSeq(<<[name |-> "iv", value |-> c.cipherParams.iv]>>,
                                            Defined)]
      crypto == IF c.t = "undefined" THEN Undefined
                ELSE [t |-> "json",
                      members |-> SelectSeq(<<[name |-> "cipher", value |-> Name(c.cipher)],
                                              [name |-> "cipherText", value |-> c.cipherText],
                                              [name |-> "cipherParams", value |-> params],
                                              [name |-> "mac", value |-> c.mac],
                                              [name |-> "kdf", value |-> Name(c.kdf)],
                                              [name |-> "kdfSalt", value |-> c.kdfSalt]>>,
                                            Defined)]
  IN  [t |-> "json",
       members |-> SelectSeq(<<[name |-> "publicKeyId", value |-> keyStorage.publicKeyId],
                               [name |-> "crypto", value |-> crypto]>>,
                             Defined)]

\* a property read: the member's value, or undefined when there is none
Get(members, name) ==
  IF \E i \in 1 .. Len(members) : members[i].name = name
  THEN members[CHOOSE i \in 1 .. Len(members) : members[i].name = name].value
  ELSE Undefined

\* JSON.parse of such a text, read as a keystore record
JSONparse(text) ==
  LET c == Get(text.members, "crypto")
      params == IF c.t = "undefined" THEN Undefined ELSE Get(c.members, "cipherParams")
      NameOf(x) == IF x.t = "undefined" THEN "undefined" ELSE x.v
  IN  [t |-> "object",
       publicKeyId |-> Get(text.members, "publicKeyId"),
       crypto |-> IF c.t = "undefined" THEN NoCrypto
                  ELSE [t |-> "object",
                        cipher |-> NameOf(Get(c.members, "cipher")),
                        cipherText |-> Get(c.members, "cipherText"),
                        cipherParams |-> IF params.t = "undefined" THEN NoCipherParams
                                         ELSE [t |-> "object",
                                               iv |-> Get(params.members, "iv")],
                        mac |-> Get(c.members, "mac"),
                        kdf |-> NameOf(Get(c.members, "kdf")),
                        kdfSalt |-> Get(c.members, "kdfSalt")]]

SplitJoin_first(text, sep, by) ==
  [i \in 1 .. Len(text) |->
     IF text[i] = sep /\ \A j \in 1 .. (i - 1) : text[j] # sep THEN by ELSE text[i]]

\* String.split(sep).join(by) of a text given as its pieces
SplitJoin(text, sep, by) ==
  [i \in 1 .. Len(text) |-> IF text[i] = sep THEN by ELSE text[i]]

\* new Date().toISOString() + "-" + publicKey + ".json", colons replaced; a
\* base-58 public key holds no colon
generateKeystoreFilename(publicKey, now) ==
  IF publicKey.t # "string"
  THEN Throw("PublicKey must be given as a string for the filename", <<>>)
  ELSE Return([t |-> "string",
               v |-> SplitJoin(now \o <<"-">>, ":", "-"),
               id |-> publicKey.v,
               ext |-> SplitJoin(<<".json">>, ":", "-")],
              <<>>)

NoPath == [dir |-> <<>>, name |-> Undefined]
Exported(outpath, json, this) ==
  [ok |-> TRUE, err |-> "", val |-> outpath, text |-> json, this |-> this]
NotExported(e, this) ==
  [ok |-> FALSE, err |-> e, val |-> NoPath, text |-> Undefined, this |-> this]

exportToFile_lockAfter(this, _keyPath, now, dirs) ==
  LET keyPath == IF Truthy(_keyPath) THEN _keyPath ELSE Str(<<"keyfiles">>)
  IN  Const(generateKeystoreFilename(this.pk, now), LAMBDA outfile :
        IF ~outfile.ok THEN NotExported(outfile.err, this)
        ELSE Const(getKeyStorage(this), LAMBDA keyStorage :
               IF ~keyStorage.ok THEN NotExported(keyStorage.err, this)
               ELSE IF keyPath.v \notin dirs THEN NotExported("ENOENT", this)
               ELSE Exported([dir |-> keyPath.v, name |-> outfile.val],
                             JSONstringify(keyStorage.val),
                             [this EXCEPT !.isLocked = TRUE])))

\* dirs: the directories the file system has
exportToFile(this, _keyPath, now, dirs) ==
  LET keyPath == IF Truthy(_keyPath) THEN _keyPath ELSE Str(<<"keyfiles">>)
  IN  Const(generateKeystoreFilename(this.pk, now), LAMBDA outfile :
        IF ~outfile.ok THEN NotExported(outfile.err, this)
        ELSE Const(getKeyStorage(this), LAMBDA keyStorage :
               IF ~keyStorage.ok THEN NotExported(keyStorage.err, this)
               ELSE IF keyPath.v \notin dirs THEN NotExported("ENOENT", this)
               ELSE Exported([dir |-> keyPath.v, name |-> outfile.val],
                             JSONstringify(keyStorage.val), this)))

\* ------------------------------------------------------------ keyfiles ---
\* keyfiles written earlier by key managers with the default options
GoodFiles ==
  {dump(Str(p), keyObject, defaultOptions).val :
     p \in Passwords \ {<<>>},
     keyObject \in {create(defaultOptions, r, 0, 0) : r \in Rand}}

\* a base-58 text with its last character replaced by the next one
NextText(x) ==
  Str([x.v EXCEPT ![Len(x.v)] = (@ + 1) % AlphaBase])

\* what a path may hold: nothing, text that is no JSON, the JSON null, a
\* keyfile, or a keyfile edited after it was written (its mac or publicKeyId
\* changed, its publicKeyId emptied or removed, its crypto member removed)
FileContents ==
  {[kind |-> k, json |-> NoInstance.keyStorage] : k \in {"missing", "garbage"}}
  \cup {[kind |-> "json", json |-> [NoInstance.keyStorage EXCEPT !.t = "null"]]}
  \cup {[kind |-> "json", json |-> f] : f \in GoodFiles}
  \cup {[kind |-> "json", json |-> [f EXCEPT !.crypto.mac = NextText(@)]] :
          f \in GoodFiles}
  \cup {[kind |-> "json", json |-> [f EXCEPT !.publicKeyId = Str(<<>>)]] :
          f \in GoodFiles}
  \cup {[kind |-> "json", json |-> [f EXCEPT !.publicKeyId = NextText(@)]] :
          f \in GoodFiles}
  \cup {[kind |-> "json", json |-> [f EXCEPT !.publicKeyId = Undefined]] :
          f \in GoodFiles}
  \cup {[kind |-> "json", json |-> [f EXCEPT !.crypto = NoCrypto]] :
          f \in GoodFiles}

\* ------------------------------------------------------------ requests ----
\* JavaScript values of the request layer: undefined, text, numbers, arrays
\* and objects
Absent == [t |-> "undefined", s |-> "", n |-> 0]
Text(s) == [t |-> "string", s |-> s, n |-> 0]
Num(n) == [t |-> "number", s |-> "", n |-> n]
List == [t |-> "array", s |-> "", n |-> 0]
Obj == [t |-> "object", s |-> "", n |-> 0]

\* !x
Falsy(x) ==
  \/ x.t = "undefined"
  \/ x.t = "string" /\ x.s = ""
  \/ x.t = "number" /\ x.n = 0
\* x || y
Or(x, y) == IF Falsy(x) THEN y ELSE x
\* x < 0, of a number or of text that is not a numeral
Negative(x) == x.t = "number" /\ x.n < 0
\* a parameter declared as  id = "1"
Default(id) == IF id.t = "undefined" THEN Text("1") ELSE id

\* utils.isValidNetwork and utils.getUrlByNetwork, as the Requests
\* constructor documents them: local and private networks are served by the
\* local node
ValidNetworks == {"local", "private"}
isValidNetwork(networkPrefix) ==
  networkPrefix.t = "string" /\ networkPrefix.s \in ValidNetworks
getUrlByNetwork(networkPrefix) == Text("http://localhost:9085/")

NoHeaders == [contentType |-> "", xApiKey |-> Absent]
NoRequests ==
  [alive |-> FALSE, networkPrefix |-> Absent, url |-> Absent, apiKey |-> Absent,
   headers |-> NoHeaders]

InvalidNetwork == "Invalid Network Prefix. Must be one of: "

\* new Requests(networkPrefix, url, apiKey)
Requests(networkPrefix, url, apiKey) ==
  Const(Or(networkPrefix, Text("local")), LAMBDA prefix :
    IF prefix # Text("local") /\ ~isValidNetwork(prefix)
    THEN Fail(InvalidNetwork, NoRequests)
    ELSE Done([alive |-> TRUE,
               networkPrefix |-> prefix,
               url |-> Or(url, getUrlByNetwork(prefix)),
               apiKey |-> Or(apiKey, Text("topl_the_world!")),
               headers |-> [contentType |-> "application/json",
                            xApiKey |-> Or(apiKey, Text("topl_the_world!"))]]))

\* a transaction object: the number of its keys other than signatures, what
\* they hold, and its signatures, a list of public keys and signature texts
NoTx == [t |-> "undefined", keys |-> 0, body |-> 0, signatures |-> <<>>]
\* a parameter object, and the one that was not given
NoFields ==
  [t |-> "undefined", recipient |-> Absent, amount |-> Absent, fee |-> Absent,
   issuer |-> Absent, assetCode |-> Absent, sender |-> Absent,
   assetId |-> Absent, publicKeys |-> Absent, tx |-> NoTx]
EmptyFields == [NoFields EXCEPT !.t = "object"]

\* an async method that threw, and one that awaits the node's answer to the
\* requests it sent
Reject(e) == [state |-> "rejected", err |-> e, sent |-> <<>>]
Pending(post) == [state |-> "pending", err |-> "", sent |-> <<post>>]

\* bramblRequest up to its call of fetch: the request it posts
bramblRequest(routeInfo, params, self) ==
  Pending([url |-> self.url.s \o routeInfo.route,
           method |-> "POST",
           headers |-> self.headers,
           body |-> [jsonrpc |-> "2.0",
                     id |-> Or(routeInfo.id, Text("1")),
                     method |-> routeInfo.method,
                     params |-> <<params>>]])

\* what the node answers: nothing yet, a JSON-RPC response with or without
\* an error member, or no response at all
NoResult == [t |-> "undefined", rawTx |-> NoTx, messageToSign |-> Undefined]
NoResponse == [kind |-> "none", error |-> Absent, result |-> NoResult]
FetchFailed == [kind |-> "failure", error |-> Absent, result |-> NoResult]

\* bramblRequest from the answer of fetch on: the promise settles
bramblRequestThen_resolvesErrors(response) ==
  IF response.kind = "failure"
  THEN [state |-> "rejected", err |-> "FetchError", val |-> NoResponse]
  ELSE [state |-> "resolved", err |-> "", val |-> response]

bramblRequestThen(response) ==
  IF response.kind = "failure"
  THEN [state |-> "rejected", err |-> "FetchError", val |-> NoResponse]
  ELSE IF ~Falsy(response.error)
  THEN [state |-> "rejected", err |-> "", val |-> response]
  ELSE [state |-> "resolved", err |-> "", val |-> response]

ParamsRequired == "A parameter object must be specified"
RecipientRequired == "A recipient must be specified"
AmountRequired == "An amount must be specified"
FeeRequired == "A fee must be specified"
FeeNegative == "Invalid fee, a fee must be greater or equal to zero"

getBalancesByKey(self, params, id) ==
  IF Falsy(params) THEN Reject(ParamsRequired)
  ELSE IF Falsy(params.publicKeys) \/ params.publicKeys.t # "array"
  THEN Reject("A list of publicKeys must be specified")
  ELSE bramblRequest([route |-> "wallet/", method |-> "balances", id |-> Default(id)],
                     params, self)

broadcastTx(self, params, id) ==
  IF Falsy(params) THEN Reject(ParamsRequired)
  ELSE IF Falsy(params.tx) THEN Reject("A tx object must be specified")
  ELSE IF params.tx.signatures = <<>> \/ params.tx.signatures[1].pk = Str(<<>>)
  THEN Reject("Tx must include signatures")
  ELSE IF params.tx.keys + 1 < 10
  THEN Reject("Invalid tx object, one or more tx keys not specified")
  ELSE bramblRequest([route |-> "wallet/", method |-> "broadcastTx", id |-> Default(id)],
                     params, self)

transferPolys_zeroFeeRejected(self, params, id) ==
  IF Falsy(params) THEN Reject(ParamsRequired)
  ELSE IF Falsy(params.recipient) THEN Reject(RecipientRequired)
  ELSE IF Falsy(params.amount) THEN Reject(AmountRequired)
  ELSE IF Falsy(params.fee) THEN Reject(FeeRequired)
  ELSE IF Negative(params.fee) THEN Reject(FeeNegative)
  ELSE bramblRequest([route |-> "wallet/", method |-> "transferPolys", id |-> Default(id)],
                     params, self)

transferPolys(self, params, id) ==
  IF Falsy(params) THEN Reject(ParamsRequired)
  ELSE IF Falsy(params.recipient) THEN Reject(RecipientRequired)
  ELSE IF Falsy(params.amount) THEN Reject(AmountRequired)
  ELSE IF Falsy(params.fee) /\ params.fee # Num(0) THEN Reject(FeeRequired)
  ELSE IF Negative(params.fee) THEN Reject(FeeNegative)
  ELSE bramblRequest([route |-> "wallet/", method |-> "transferPolys", id |-> Default(id)],
                     params, self)

createAssetsPrototype(self, params, id) ==
  IF Falsy(params) THEN Reject(ParamsRequired)
  ELSE IF Falsy(params.issuer) THEN Reject("An asset issuer must be specified")
  ELSE IF Falsy(params.assetCode) THEN Reject("An assetCode must be specified")
  ELSE IF Falsy(params.recipient) THEN Reject(RecipientRequired)
  ELSE IF Falsy(params.amount) THEN Reject(AmountRequired)
  ELSE IF Falsy(params.fee) /\ params.fee # Num(0) THEN Reject(FeeRequired)
  ELSE IF Negative(params.fee) THEN Reject(FeeNegative)
  ELSE bramblRequest([route |-> "asset/", method |-> "createAssetsPrototype",
                      id |-> Default(id)], params, self)

transferAssetsPrototype(self, params, id) ==
  IF Falsy(params) THEN Reject(ParamsRequired)
  ELSE IF Falsy(params.issuer) THEN Reject("An asset issuer must be specified")
  ELSE IF Falsy(params.assetCode) THEN Reject("An assetCode must be specified")
  ELSE IF Falsy(params.recipient) THEN Reject(RecipientRequired)
  ELSE IF Falsy(params.sender) THEN Reject("A sender must be specified")
  ELSE IF Falsy(params.amount) THEN Reject(AmountRequired)
  ELSE IF Falsy(params.fee) /\ params.fee # Num(0) THEN Reject(FeeRequired)
  ELSE IF Negative(params.fee) THEN Reject(FeeNegative)
  ELSE bramblRequest([route |-> "asset/", method |-> "transferAssetsPrototype",
                      id |-> Default(id)], params, self)

transferTargetAssetsPrototype(self, params, id) ==
  IF Falsy(params) THEN Reject(ParamsRequired)
  ELSE IF Falsy(params.recipient) THEN Reject(RecipientRequired)
  ELSE IF Falsy(params.sender) THEN Reject("A sender must be specified")
  ELSE IF Falsy(params.assetId) THEN Reject("An assetId is required for this request")
  ELSE IF Falsy(params.amount) THEN Reject(AmountRequired)
  ELSE IF Falsy(params.fee) /\ params.fee # Num(0) THEN Reject(FeeRequired)
  ELSE IF Negative(params.fee) THEN Reject(FeeNegative)
  ELSE bramblRequest([route |-> "asset/", method |-> "transferTargetAssetsPrototype",
                      id |-> Default(id)], params, self)

\* ------------------------------------------------------------ Brambl ------
validTxMethods ==
  {"createAssetsPrototype", "transferAssetsPrototype", "transferTargetAssetsPrototype",
   "createRawArbitTransfer", "createRawAssetTransfer", "createRawPolyTransfer"}

\* the methods class Requests defines
RequestsMethods ==
  {"setUrl", "setApiKey", "getBalancesByKey", "listOpenKeyfiles", "generateKeyfile",
   "lockKeyfile", "unlockKeyfile", "signTransaction", "broadcastTx", "transferPolys",
   "transferArbits", "createAssetsPrototype", "transferAssetsPrototype",
   "transferTargetAssetsPrototype", "getTransactionById", "getTransactionFromMempool",
   "getMempool", "getBlockById", "chainInfo", "calcDelay", "myBlocks", "blockGenerators"}

NoBrambl ==
  [alive |-> FALSE, networkPrefix |-> Absent, requests |-> NoRequests,
   keyManager |-> "none", own |-> NoInstance]

IncompatiblePrefixes ==
  "Incompatible network prefixes set for Requests and KeyManager Instances."
EncryptionPasswordRequired == "An encryption password is required to open a keyfile"

\* the last statements of the Brambl constructor: both sub-modules must
\* carry the Brambl's network prefix. keyManager is the instance by
\* reference ("km", the caller's, or "own", the one just made) with its
\* networkPrefix property
MatchPrefixes(networkPrefix, req, keyManager) ==
  IF networkPrefix # req.networkPrefix \/ networkPrefix # keyManager.networkPrefix
  THEN Fail(IncompatiblePrefixes, NoBrambl)
  ELSE Done([alive |-> TRUE, networkPrefix |-> networkPrefix, requests |-> req,
             keyManager |-> keyManager.ref, own |-> keyManager.this])

\* new Brambl(params); file is what params.KeyManager.keyPath names.
\* params.KeyManager and params.Requests are absent,
\* configuration objects or instances. An instance given as params.Requests
\* is requestsVar; one given as params.KeyManager is kept by reference, and
\* params.KeyManager.networkPrefix is the property its owner gave it, for
\* new KeyManager(...) assigns none
Brambl(params, requestsVar, file, r1, r2, r3) ==
  LET networkPrefix == Or(params.networkPrefix, Text("local"))
      password == IF params.t = "string" THEN Str(params.v)
                  ELSE IF Truthy(params.password) THEN params.password
                  ELSE params.KeyManager.password
  IN  IF ~isValidNetwork(networkPrefix) THEN Fail(InvalidNetwork, NoBrambl)
      ELSE
      Const(IF params.Requests.kind = "instance" THEN Done(requestsVar)
            ELSE Requests(networkPrefix, params.Requests.url, params.Requests.apiKey),
            LAMBDA req :
        IF ~req.ok THEN Fail(req.err, NoBrambl)
        ELSE IF params.KeyManager.kind = "instance"
        THEN MatchPrefixes(networkPrefix, req.this,
                           [ref |-> "km", this |-> NoInstance,
                            networkPrefix |-> params.KeyManager.networkPrefix])
        ELSE IF ~Truthy(password) THEN Fail(EncryptionPasswordRequired, NoBrambl)
        ELSE Const(constructor([t |-> "object", v |-> <<>>, password |-> password,
                                keyPath |-> params.KeyManager.keyPath,
                                constants |-> params.KeyManager.constants],
                               file, r1, r2, r3),
                   LAMBDA keyManager :
               IF ~keyManager.ok THEN Fail(keyManager.err, NoBrambl)
               ELSE MatchPrefixes(networkPrefix, req.this,
                                  [ref |-> "own",
                                   this |-> [keyManager.this EXCEPT !.alive = TRUE],
                                   networkPrefix |-> Absent])))

\* static Requests(url, apiKey)
BramblRequests(url, apiKey) == Requests(url, apiKey, Absent)

\* a Brambl method's promise, with the calls it made on its sub-modules
Stepped(out, steps) ==
  [state |-> out.state, err |-> out.err, sent |-> out.sent, steps |-> steps]

\* {...rawTx, signatures}
Merge(rawTx, signatures) == [rawTx EXCEPT !.t = "object", !.signatures = signatures]

addSigToTx_keepsSignatures(prototypeTx, key, random) ==
  IF prototypeTx.t = "undefined" THEN Throw("TypeError", <<>>)
  ELSE IF prototypeTx.rawTx.signatures # <<>>
  THEN Return(prototypeTx.rawTx, <<>>)
  ELSE Const(sign(key, prototypeTx.messageToSign, random), LAMBDA signature :
         IF ~signature.ok THEN Throw(signature.err, <<"sign">>)
         ELSE Return(Merge(prototypeTx.rawTx,
                           <<[pk |-> key.pk, sig |-> Base58encode(signature.val.v)]>>),
                     <<"sign">>))

\* addSigToTx with the one key manager signAndBroadcast passes
addSigToTx(prototypeTx, key, random) ==
  IF prototypeTx.t = "undefined" THEN Throw("TypeError", <<>>)
  ELSE Const(sign(key, prototypeTx.messageToSign, random), LAMBDA signature :
         IF ~signature.ok THEN Throw(signature.err, <<"sign">>)
         ELSE Return(Merge(prototypeTx.rawTx,
                           <<[pk |-> key.pk, sig |-> Base58encode(signature.val.v)]>>),
                     <<"sign">>))

signAndBroadcast(this, key, prototypeTx, random) ==
  Const(addSigToTx(prototypeTx, key, random), LAMBDA formattedTx :
    IF ~formattedTx.ok THEN Stepped(Reject(formattedTx.err), formattedTx.calls)
    ELSE Stepped(broadcastTx(this.requests, [EmptyFields EXCEPT !.tx = formattedTx.val],
                             Absent),
                 formattedTx.calls \o <<"broadcastTx">>))

NotAFunction == "TypeError: this.requests[method] is not a function"

\* this.requests[method](params), for the methods transaction admits
Invoke(self, method, params) ==
  CASE method = "createAssetsPrototype" -> createAssetsPrototype(self, params, Absent)
    [] method = "transferAssetsPrototype" -> transferAssetsPrototype(self, params, Absent)
    [] method = "transferTargetAssetsPrototype" ->
         transferTargetAssetsPrototype(self, params, Absent)
    [] OTHER -> Reject(NotAFunction)

\* transaction up to the prototype request; its then-callback is
\* signAndBroadcast
transaction(this, method, params) ==
  IF method \notin validTxMethods
  THEN Stepped(Reject("Invalid transaction method"), <<>>)
  ELSE IF method \notin RequestsMethods THEN Stepped(Reject(NotAFunction), <<>>)
  ELSE Stepped(Invoke(this.requests, method, params), <<method>>)

\* ------------------------------------------------------------ state -------
NoKey == [publicKey |-> Undefined, privateKey |-> Undefined,
          iv |-> Undefined, salt |-> Undefined]
NoFile == [kind |-> "none", json |-> NoInstance.keyStorage]
NotBuilt == [how |-> "none", password |-> Undefined, constants |-> NoOptions,
             key |-> NoKey, file |-> NoFile]
NoCall == [op |-> "none", on |-> "km", arg |-> Undefined, ok |-> TRUE, err |-> "",
           val |-> Undefined, before |-> NoInstance]
NotMade == [password |-> Undefined, key |-> NoKey, kdfParams |-> NoParams,
            cipher |-> "undefined", derivedKey |-> Undefined,
            ok |-> FALSE, err |-> "", calls |-> <<>>]
NotWritten == [kind |-> "none", by |-> "km", path |-> NoPath, text |-> Undefined]
NoCallYet ==
  [op |-> "none", args |-> <<>>, state |-> "none", err |-> "", val |-> NoResponse,
   response |-> NoResponse, sent |-> <<>>, steps |-> <<>>, stage |-> "none",
   proto |-> NoResult, key |-> NoInstance]
NotRecovered == [called |-> FALSE, password |-> Undefined, kdfParams |-> NoParams,
                 res |-> Throw("", <<>>)]

Init ==
  /\ km = NoInstance
  /\ built = NotBuilt
  /\ last = NoCall
  /\ made = NotMade
  /\ keyfile = NoInstance.keyStorage
  /\ tampered = "none"
  /\ recovered = NotRecovered
  /\ disk = NotWritten
  /\ peer = NoInstance
  /\ requests = NoRequests
  /\ brambl = NoBrambl
  /\ call = NoCallYet

\* ------------------------------------------------------------ KeyManager --
\* the outcome of new KeyManager(params): the instance, or none when the
\* constructor threw
Construct(how, params, file, r1, r2, r3) ==
  /\ ~km.alive
  /\ last.op = "none"
  /\ \E res \in {constructor(params, file, r1, r2, r3)} :
       /\ km' = IF res.ok THEN [res.this EXCEPT !.alive = TRUE] ELSE NoInstance
       /\ built' = [how |-> how,
                    password |-> IF params.t = "string" THEN Str(params.v)
                                 ELSE params.password,
                    constants |-> params.constants,
                    key |-> IF res.ok /\ how = "generate"
                            THEN create(res.this.constants, r1, r2, r3)
                            ELSE NoKey,
                    file |-> IF how = "import" THEN file ELSE NoFile]
       /\ last' = [op |-> "new", on |-> "km", arg |-> Undefined, ok |-> res.ok, err |-> res.err,
                   val |-> Undefined, before |-> km]
       /\ UNCHANGED <<codecVars, bramblVars, disk, peer>>

\* new KeyManager({password, constants}) and new KeyManager(password)
Generate ==
  /\ ~km.alive
  /\ \E p \in Passwords, c \in CallerConstants \cup {NoOptions}, r1, r2, r3 \in Rand :
       \/ Construct("generate",
                    [t |-> "object", v |-> <<>>, password |-> Str(p),
                     keyPath |-> Undefined, constants |-> c],
                    NoFile, r1, r2, r3)
       \/ /\ c = NoOptions
          /\ Construct("generate",
                       [t |-> "string", v |-> p, password |-> Undefined,
                        keyPath |-> Undefined, constants |-> NoOptions],
                       NoFile, r1, r2, r3)

\* new KeyManager({password, keyPath, constants})
Import ==
  /\ ~km.alive
  /\ \E p \in Passwords, c \in CallerConstants \cup {NoOptions}, file \in FileContents :
       Construct("import",
                 [t |-> "object", v |-> <<>>, password |-> Str(p),
                  keyPath |-> Str(<<1>>), constants |-> c],
                 file, 0, 0, 0)

LockKey ==
  /\ km.alive
  /\ \E res \in {lockKey(km)} :
      /\ km' = res.this
      /\ peer' = OtherInstance(peer, res.this)
      /\ last' = [op |-> "lockKey", on |-> "km", arg |-> Undefined, ok |-> res.ok,
                  err |-> res.err, val |-> Undefined, before |-> km]
      /\ UNCHANGED <<built, codecVars, bramblVars, disk>>

UnlockKey ==
  \E p \in Passwords :
    /\ km.alive
    /\ \E res \in {unlockKey(km, Str(p))} :
        /\ km' = res.this
        /\ peer' = OtherInstance(peer, res.this)
        /\ last' = [op |-> "unlockKey", on |-> "km", arg |-> Str(p), ok |-> res.ok,
                    err |-> res.err, val |-> Undefined, before |-> km]
        /\ UNCHANGED <<built, codecVars, bramblVars, disk>>

Sign ==
  \E m \in Messages, random \in Rand :
    /\ km.alive
    /\ \E res \in {sign(km, Str(m), random)} :
        /\ last' = [op |-> "sign", on |-> "km", arg |-> Str(m), ok |-> res.ok, err |-> res.err,
                    val |-> res.val, before |-> km]
        /\ UNCHANGED <<km, built, codecVars, bramblVars, disk, peer>>

GetKeyStorage ==
  /\ km.alive
  /\ \E res \in {getKeyStorage(km)} :
      /\ last' = [op |-> "getKeyStorage", on |-> "km", arg |-> Undefined, ok |-> res.ok,
                  err |-> res.err,
                  val |-> IF res.ok THEN res.val.publicKeyId ELSE Undefined,
                  before |-> km]
      /\ UNCHANGED <<km, built, codecVars, bramblVars, disk, peer>>

\* the directory arguments offered to exportToFile, the states of the file
\* system it may meet, and the instants the clock may show
KeyPaths == {Undefined, Str(<<"keystore">>)}
FileSystems == {{<<"keyfiles">>}, {<<"keyfiles">>, <<"keystore">>}}
Instants == {<<"2020-04-03T10", ":", "00", ":", "00.000Z">>,
             <<"2020-04-03T10", ":", "00", ":", "01.000Z">>}

\* the file system after fs.writeFileSync(outpath, json), when it was reached
WriteFile(files, who, res) ==
  IF res.text.t = "json"
  THEN [kind |-> "file", by |-> who, path |-> res.val, text |-> res.text]
  ELSE files

ExportToFile ==
  \E keyPath \in KeyPaths, now \in Instants, dirs \in FileSystems :
    /\ km.alive
    /\ \E res \in {exportToFile(km, keyPath, now, dirs)} :
        /\ km' = res.this
        /\ disk' = WriteFile(disk, "km", res)
        /\ last' = [op |-> "exportToFile", on |-> "km",
                    arg |-> [t |-> keyPath.t, v |-> keyPath.v, now |-> now],
                    ok |-> res.ok,
                    err |-> res.err,
                    val |-> IF res.text.t = "json" THEN Str(res.val.dir) ELSE Undefined,
                    before |-> km]
        /\ peer' = OtherInstance(peer, res.this)
        /\ UNCHANGED <<built, codecVars, bramblVars>>

\* the public keys of the key pairs create may generate, base-58 encoded
PublicKeys == {Str(Base58encode(PublicOf(bifrostBlake2b(r)))) : r \in Rand}

\* KeyManager.verify(publicKey, message, signature[, cb]) for the signature
\* sign just returned
Verify ==
  \E publicKey \in {km.pk} \cup PublicKeys, m \in Messages, cb \in {"none", "function"} :
    /\ last.op = "sign" /\ last.on = "km" /\ last.ok
    /\ \E res \in {verify(publicKey, Str(m), last.val, cb)} :
        /\ last' = [op |-> "verify", on |-> "km",
                    arg |-> [t |-> "object", v |-> <<>>, publicKey |-> publicKey,
                             message |-> Str(m), signature |-> last.val,
                             signed |-> last.arg, cb |-> cb],
                    ok |-> res.ok, err |-> res.err, val |-> res.val,
                    before |-> km]
        /\ UNCHANGED <<km, built, codecVars, bramblVars, disk, peer>>

\* new KeyManager({password}) with a password that is not empty and the
\* default constants
GenerateDefault ==
  /\ ~km.alive
  /\ \E p \in Passwords \ {<<>>}, r1 \in Rand :
       Construct("generate",
                 [t |-> "object", v |-> <<>>, password |-> Str(p),
                  keyPath |-> Undefined, constants |-> NoOptions],
                 NoFile, r1, 0, 0)

Next ==
  \/ Generate \/ Import \/ LockKey \/ UnlockKey \/ Sign \/ GetKeyStorage
  \/ ExportToFile

Spec == Init /\ [][Next]_vars

\* signing and verifying, with generated and with imported keys
NextVerify == GenerateDefault \/ Import \/ Sign \/ Verify

SpecVerify == Init /\ [][NextVerify]_vars

\* ------------------------------------------------------------ two instances
\* what fs.readFileSync and JSON.parse make of the file exportToFile wrote
ReadFile(files) ==
  IF files.kind = "none" THEN [kind |-> "missing", json |-> NoInstance.keyStorage]
  ELSE [kind |-> "json", json |-> JSONparse(files.text)]

\* the second instance: new KeyManager(params), recorded with its arguments
PeerConstruct(params, file, r1, r2, r3) ==
  /\ ~peer.alive
  /\ \E res \in {constructor(params, file, r1, r2, r3)} :
       /\ peer' = IF res.ok THEN [res.this EXCEPT !.alive = TRUE] ELSE NoInstance
       /\ km' = OtherInstance(km, peer')
       /\ last' = [op |-> "new", on |-> "peer",
                   arg |-> [t |-> "object", v |-> <<>>, password |-> params.password,
                            constants |-> params.constants, file |-> file],
                   ok |-> res.ok, err |-> res.err, val |-> Undefined, before |-> peer]
       /\ UNCHANGED <<built, codecVars, bramblVars, disk>>

\* new KeyManager({password, keyPath, constants}) for the path exportToFile
\* returned, with no constants or with a cheaper scrypt
ImportExported ==
  /\ km.alive /\ ~peer.alive
  /\ disk.kind = "file"
  /\ \E q \in Passwords,
        c \in {NoOptions,
               [defaultOptions EXCEPT !.scrypt = [scryptDefaults EXCEPT !.n = scryptN - 1]]} :
       PeerConstruct([t |-> "object", v |-> <<>>, password |-> Str(q),
                      keyPath |-> Str(disk.path.dir), constants |-> c],
                     ReadFile(disk), 0, 0, 0)

\* new KeyManager({password}) beside the first instance
PeerGenerate ==
  /\ km.alive /\ ~peer.alive
  /\ \E q \in Passwords \ {<<>>} :
       PeerConstruct([t |-> "object", v |-> <<>>, password |-> Str(q),
                      keyPath |-> Undefined, constants |-> NoOptions],
                     NoFile, MaxRand - 1, 0, 0)

PeerLockKey ==
  /\ peer.alive
  /\ \E res \in {lockKey(peer)} :
      /\ peer' = res.this
      /\ km' = OtherInstance(km, res.this)
      /\ last' = [op |-> "lockKey", on |-> "peer", arg |-> Undefined, ok |-> res.ok,
                  err |-> res.err, val |-> Undefined, before |-> peer]
      /\ UNCHANGED <<built, codecVars, bramblVars, disk>>

PeerUnlockKey ==
  \E p \in Passwords :
    /\ peer.alive
    /\ \E res \in {unlockKey(peer, Str(p))} :
        /\ peer' = res.this
        /\ km' = OtherInstance(km, res.this)
        /\ last' = [op |-> "unlockKey", on |-> "peer", arg |-> Str(p), ok |-> res.ok,
                    err |-> res.err, val |-> Undefined, before |-> peer]
        /\ UNCHANGED <<built, codecVars, bramblVars, disk>>

PeerSign ==
  \E m \in Messages, random \in Rand :
    /\ peer.alive
    /\ \E res \in {sign(peer, Str(m), random)} :
        /\ last' = [op |-> "sign", on |-> "peer", arg |-> Str(m), ok |-> res.ok,
                    err |-> res.err, val |-> res.val, before |-> peer]
        /\ UNCHANGED <<km, peer, built, codecVars, bramblVars, disk>>

PeerExportToFile ==
  \E keyPath \in KeyPaths, now \in Instants, dirs \in FileSystems :
    /\ peer.alive
    /\ \E res \in {exportToFile(peer, keyPath, now, dirs)} :
        /\ peer' = res.this
        /\ km' = OtherInstance(km, res.this)
        /\ disk' = WriteFile(disk, "peer", res)
        /\ last' = [op |-> "exportToFile", on |-> "peer", arg |-> keyPath,
                    ok |-> res.ok, err |-> res.err,
                    val |-> IF res.text.t = "json" THEN Str(res.val.dir) ELSE Undefined,
                    before |-> peer]
        /\ UNCHANGED <<built, codecVars, bramblVars>>

NextPair ==
  \/ GenerateDefault \/ LockKey \/ UnlockKey \/ Sign \/ ExportToFile
  \/ ImportExported \/ PeerGenerate
  \/ PeerLockKey \/ PeerUnlockKey \/ PeerSign \/ PeerExportToFile

SpecPair == Init /\ [][NextPair]_vars

\* ------------------------------------------------------------ requests ----
\* the arguments offered to the Requests constructor
NetworkPrefixes == {Absent, Text("private"), Text("nowhere")}
Urls == {Absent, Text("http://node:9085/")}
ApiKeys == {Absent, Text("key")}

\* new Requests(networkPrefix, url, apiKey)
NewRequests ==
  /\ ~requests.alive
  /\ call.state # "pending"
  /\ \E networkPrefix \in NetworkPrefixes, url \in Urls, apiKey \in ApiKeys :
       \E res \in {Requests(networkPrefix, url, apiKey)} :
         /\ requests' = IF res.ok THEN res.this ELSE requests
         /\ call' = [NoCallYet EXCEPT
                       !.op = "new Requests",
                       !.args = [networkPrefix |-> networkPrefix, url |-> url,
                                 apiKey |-> apiKey],
                       !.state = IF res.ok THEN "returned" ELSE "thrown",
                       !.err = res.err]
         /\ UNCHANGED <<kmVars, codecVars, brambl>>

\* Brambl.Requests(url, apiKey)
StaticRequests ==
  /\ ~requests.alive
  /\ call.state # "pending"
  /\ \E url \in Urls, apiKey \in ApiKeys :
       \E res \in {BramblRequests(url, apiKey)} :
         /\ requests' = IF res.ok THEN res.this ELSE requests
         /\ call' = [NoCallYet EXCEPT
                       !.op = "Brambl.Requests",
                       !.args = [networkPrefix |-> Absent, url |-> url,
                                 apiKey |-> apiKey],
                       !.state = IF res.ok THEN "returned" ELSE "thrown",
                       !.err = res.err]
         /\ UNCHANGED <<kmVars, codecVars, brambl>>

\* a call of a Requests method: the promise it returns and the request it
\* has posted
Started(op, params, id, out) ==
  [NoCallYet EXCEPT !.op = op,
                    !.args = [method |-> op, params |-> params, id |-> id],
                    !.state = out.state,
                    !.err = out.err,
                    !.sent = out.sent,
                    !.stage = IF out.state = "pending" THEN "request" ELSE "none"]

\* the parameters offered to transferPolys: none, and objects whose
\* recipient, amount and fee are absent, empty or given
PolyParams ==
  {NoFields}
  \cup {[EmptyFields EXCEPT !.recipient = r, !.amount = a, !.fee = f] :
          r \in {Absent, Text(""), Text("recipient")},
          a \in {Absent, Text(""), Num(0), Num(1)},
          f \in {Absent, Text(""), Num(0), Num(1), Num(-1)}}

TransferPolys ==
  /\ requests.alive
  /\ call.state # "pending"
  /\ \E params \in PolyParams :
       \E out \in {transferPolys(requests, params, Absent)} :
         /\ call' = Started("transferPolys", params, Absent, out)
         /\ UNCHANGED <<kmVars, codecVars, requests, brambl>>

BalanceParams ==
  {NoFields, EmptyFields, [EmptyFields EXCEPT !.publicKeys = List],
   [EmptyFields EXCEPT !.publicKeys = Text("publicKey")]}
Ids == {Absent, Text(""), Text("7")}

GetBalancesByKey ==
  /\ requests.alive
  /\ call.state # "pending"
  /\ \E params \in BalanceParams, id \in Ids :
       \E out \in {getBalancesByKey(requests, params, id)} :
         /\ call' = Started("getBalancesByKey", params, id, out)
         /\ UNCHANGED <<kmVars, codecVars, requests, brambl>>

\* the node's answers to a request that asks for no prototype
Replies ==
  {[kind |-> "json", error |-> Absent, result |-> NoResult],
   [kind |-> "json", error |-> Obj, result |-> NoResult],
   FetchFailed}

\* the node answers the request of a Requests method, or the broadcast of
\* signAndBroadcast, and the promise settles
Respond ==
  /\ call.state = "pending"
  /\ call.stage \in {"request", "broadcast"}
  /\ \E response \in Replies :
       \E res \in {bramblRequestThen(response)} :
         /\ call' = [call EXCEPT !.state = res.state, !.err = res.err,
                                 !.val = res.val, !.response = response]
         /\ UNCHANGED <<kmVars, codecVars, requests, brambl>>

\* ------------------------------------------------------------ Brambl ------
KeyManagerOf(this) == IF this.keyManager = "km" THEN km ELSE this.own

NoSubModule ==
  [kind |-> "absent", password |-> Undefined, keyPath |-> Undefined,
   constants |-> NoOptions, networkPrefix |-> Absent, url |-> Absent,
   apiKey |-> Absent]
\* params.KeyManager: absent, {password}, or an instance whose owner did or
\* did not give it a networkPrefix property
KeyManagerParams ==
  {NoSubModule,
   [NoSubModule EXCEPT !.kind = "config", !.password = Str(<<1>>)],
   [NoSubModule EXCEPT !.kind = "instance"],
   [NoSubModule EXCEPT !.kind = "instance", !.networkPrefix = Text("local")]}
\* params.Requests: absent, {url}, or an instance
RequestsParams ==
  {NoSubModule,
   [NoSubModule EXCEPT !.kind = "config", !.url = Text("http://node:9085/")],
   [NoSubModule EXCEPT !.kind = "instance"]}
\* new Brambl(password) and new Brambl({networkPrefix, password, KeyManager,
\* Requests})
BramblParams ==
  {[t |-> "string", v |-> p, password |-> Undefined, networkPrefix |-> Absent,
    KeyManager |-> NoSubModule, Requests |-> NoSubModule] : p \in Passwords}
  \cup {[t |-> "object", v |-> <<>>, password |-> p, networkPrefix |-> n,
         KeyManager |-> k, Requests |-> r] :
          p \in {Undefined, Str(<<1>>)}, n \in {Absent, Text("nowhere")},
          k \in KeyManagerParams, r \in RequestsParams}

NewBrambl ==
  /\ ~brambl.alive
  /\ call.state # "pending"
  /\ \E params \in BramblParams, r1 \in Rand :
       /\ params.KeyManager.kind = "instance" => km.alive
       /\ params.Requests.kind = "instance" => requests.alive
       /\ \E res \in {Brambl(params, requests, NoFile, r1, 0, 0)} :
            /\ brambl' = IF res.ok THEN res.this ELSE brambl
            /\ call' = [NoCallYet EXCEPT
                          !.op = "new Brambl",
                          !.args = params,
                          !.state = IF res.ok THEN "returned" ELSE "thrown",
                          !.err = res.err]
            /\ UNCHANGED <<kmVars, codecVars, requests>>

\* the prototype transactions a node may answer with: complete and unsigned,
\* complete and carrying a signature already, and with keys missing
FullTx == [t |-> "object", keys |-> 9, body |-> 1, signatures |-> <<>>]
ForgedTx == [FullTx EXCEPT !.signatures = <<[pk |-> Str(<<1>>), sig |-> <<1>>]>>]
ShortTx == [FullTx EXCEPT !.keys = 3]
Prototypes ==
  {NoResult}
  \cup {[t |-> "object", rawTx |-> FullTx, messageToSign |-> Str(m)] : m \in Messages}
  \cup {[t |-> "object", rawTx |-> tx, messageToSign |-> Str(<<1>>)] :
          tx \in {ForgedTx, ShortTx}}
PrototypeReplies ==
  {[kind |-> "json", error |-> Absent, result |-> p] : p \in Prototypes}
  \cup {[kind |-> "json", error |-> Obj, result |-> NoResult], FetchFailed}

\* the parameters and the method names offered to transaction
GoodAsset ==
  [EmptyFields EXCEPT !.issuer = Text("issuer"), !.assetCode = Text("code"),
                      !.recipient = Text("recipient"), !.sender = List,
                      !.assetId = Text("box"), !.amount = Num(1), !.fee = Num(0)]
AssetParams == {NoFields, GoodAsset, [GoodAsset EXCEPT !.amount = Absent]}
TxMethods == validTxMethods \cup {"transferPolys", "destroy"}

Transaction ==
  /\ brambl.alive
  /\ call.state # "pending"
  /\ \E method \in TxMethods, params \in AssetParams :
       \E out \in {transaction(brambl, method, params)} :
         /\ call' = [NoCallYet EXCEPT
                       !.op = "transaction",
                       !.args = [method |-> method, params |-> params, id |-> Absent],
                       !.state = out.state,
                       !.err = out.err,
                       !.sent = out.sent,
                       !.steps = out.steps,
                       !.stage = IF out.state = "pending" THEN "prototype" ELSE "none"]
         /\ UNCHANGED <<kmVars, codecVars, requests, brambl>>

\* signAndBroadcast as it leaves the call record of the method that ran it
Broadcast(record, prototypeTx, out) ==
  [record EXCEPT !.state = out.state,
                 !.err = out.err,
                 !.sent = record.sent \o out.sent,
                 !.steps = record.steps \o out.steps,
                 !.stage = IF out.state = "pending" THEN "broadcast" ELSE "none",
                 !.proto = prototypeTx,
                 !.key = KeyManagerOf(brambl)]

\* the node answers the prototype request of transaction, whose
\* then-callback signs and broadcasts res.result
PrototypeResponse ==
  /\ call.state = "pending"
  /\ call.stage = "prototype"
  /\ \E response \in PrototypeReplies, random \in Rand :
       \E res \in {bramblRequestThen(response)} :
         /\ IF res.state = "rejected"
            THEN call' = [call EXCEPT !.state = res.state, !.err = res.err,
                                      !.val = res.val, !.response = response,
                                      !.stage = "none"]
            ELSE \E out \in {signAndBroadcast(brambl, KeyManagerOf(brambl),
                                              res.val.result, random)} :
                   call' = Broadcast([call EXCEPT !.response = response],
                                     res.val.result, out)
         /\ UNCHANGED <<kmVars, codecVars, requests, brambl>>

SignAndBroadcast ==
  /\ brambl.alive
  /\ call.state # "pending"
  /\ \E prototypeTx \in Prototypes, random \in Rand :
       \E out \in {signAndBroadcast(brambl, KeyManagerOf(brambl), prototypeTx, random)} :
         /\ call' = Broadcast([NoCallYet EXCEPT
                                 !.op = "signAndBroadcast",
                                 !.args = [method |-> "signAndBroadcast",
                                           params |-> NoFields, id |-> Absent]],
                              prototypeTx, out)
         /\ UNCHANGED <<kmVars, codecVars, requests, brambl>>

NextRequests ==
  \/ NewRequests \/ StaticRequests \/ NewBrambl
  \/ TransferPolys \/ GetBalancesByKey \/ Respond

SpecRequests == Init /\ [][NextRequests]_vars

NextBrambl ==
  \/ GenerateDefault \/ LockKey \/ NewBrambl
  \/ Transaction \/ SignAndBroadcast \/ PrototypeResponse \/ Respond

SpecBrambl == Init /\ [][NextBrambl]_vars

\* ------------------------------------------------------------ codec ------
KdfParamSets == {scryptDefaults, [scryptDefaults EXCEPT !.n = scryptN - 1]}

\* cipher names a caller or a record may give: the provider's, and one it
\* does not offer
CipherNames == Ciphers \cup {"aes-256-xyz"}

TextFields == {"cipherText", "iv", "mac"}

FieldOf(keyStorage, field) ==
  IF field = "cipherText" THEN keyStorage.crypto.cipherText
  ELSE IF field = "iv" THEN keyStorage.crypto.cipherParams.iv
  ELSE keyStorage.crypto.mac

WithField(keyStorage, field, text) ==
  IF field = "cipherText" THEN [keyStorage EXCEPT !.crypto.cipherText = text]
  ELSE IF field = "iv" THEN [keyStorage EXCEPT !.crypto.cipherParams.iv = text]
  ELSE [keyStorage EXCEPT !.crypto.mac = text]

\* marshal(deriveKey(password, salt, kdfParams), keyObject, salt, iv, cipher)
\* for a freshly created key object
\* for a freshly created key object; when marshal throws there is no record
Marshal ==
  \E p \in Passwords, r1, r2, r3 \in Rand, kdf \in KdfParamSets, algo \in CipherNames :
    /\ made = NotMade
    /\ \E key \in {create(defaultOptions, r1, r2, r3)} :
       \E dk \in {deriveKey(Str(p), key.salt, kdf)} :
       \E rec \in {marshal(dk.val, key, key.salt, key.iv, algo)} :
        /\ dk.ok
        /\ made' = [password |-> Str(p), key |-> key, kdfParams |-> kdf,
                    cipher |-> algo, derivedKey |-> dk.val,
                    ok |-> rec.ok, err |-> rec.err, calls |-> rec.calls]
        /\ keyfile' = IF rec.ok THEN rec.val ELSE keyfile
        /\ UNCHANGED <<tampered, recovered, kmVars, bramblVars>>

\* the stored record's cipher member is replaced by another cipher name
NameCipher ==
  \E algo \in CipherNames :
    /\ keyfile.t = "object"
    /\ tampered = "none"
    /\ ~recovered.called
    /\ keyfile.crypto.cipher # algo
    /\ keyfile' = [keyfile EXCEPT !.crypto.cipher = algo]
    /\ tampered' = "cipher"
    /\ UNCHANGED <<made, recovered, kmVars, bramblVars>>

\* one character of one text field of the stored record is replaced by
\* another character of the alphabet
Tamper ==
  \E field \in TextFields, c \in Char :
    \E i \in 1 .. Len(FieldOf(keyfile, field).v) :
      /\ keyfile.t = "object"
      /\ tampered = "none"
      /\ ~recovered.called
      /\ FieldOf(keyfile, field).v[i] # c
      /\ keyfile' = WithField(keyfile, field,
                              Str([FieldOf(keyfile, field).v EXCEPT ![i] = c]))
      /\ tampered' = field
      /\ UNCHANGED <<made, recovered, kmVars, bramblVars>>

Recover ==
  \E p \in Passwords, kdf \in KdfParamSets :
    /\ keyfile.t = "object"
    /\ ~recovered.called
    /\ recovered' = [called |-> TRUE, password |-> Str(p), kdfParams |-> kdf,
                     res |-> recover(Str(p), keyfile, kdf)]
    /\ UNCHANGED <<made, keyfile, tampered, kmVars, bramblVars>>

NextCodec == Marshal \/ Tamper \/ NameCipher \/ Recover

SpecCodec == Init /\ [][NextCodec]_vars

\* ------------------------------------------------------------ properties --
MacMismatch == "message authentication code mismatch"
KeyLocked == "The key is currently locked. Please unlock and try again."
InvalidPassword == "Invalid password"
KeyUninitialized == "A key must be initialized before using this key manager"

\* C1, as claimed: a constructed KeyManager is Unlocked, and sign returns a
\* signature exactly when the instance is Unlocked; while Locked it fails
\* with the key-locked error.
C1_LockDiscipline ==
  /\ (last.op = "new" /\ last.ok) => ~km.isLocked
  /\ last.op = "sign" =>
       /\ last.ok <=> ~km.isLocked
       /\ last.ok => last.val.t = "buffer"
       /\ km.isLocked => last.err = KeyLocked

\* C2: unlockKey on a Locked instance unlocks it exactly when its argument
\* is the password given at construction; with any other password it fails
\* with the invalid-password error and the instance stays Locked, whatever
\* calls came before.
C2_UnlockNeedsPassword ==
  (last.op = "unlockKey" /\ last.before.isLocked) =>
    IF last.arg = built.password
    THEN last.ok /\ ~km.isLocked
    ELSE ~last.ok /\ last.err = InvalidPassword /\ km.isLocked

C2_Witness ==
  /\ last.op = "unlockKey"
  /\ last.before.isLocked
  /\ last.arg # built.password
  /\ last.err = InvalidPassword
  /\ km.isLocked

\* C3, as claimed: a Locked KeyManager holds no private key.
C3_NoKeyWhileLocked ==
  (km.alive /\ km.isLocked) => km.sk = Undefined

\* the outcome of recover for the keyfile and password an import was given
ImportRecover ==
  recover(built.password, built.file.json,
          IF built.constants.t # "undefined" THEN built.constants.scrypt
          ELSE defaultOptions.scrypt)

ImportErrors ==
  {"Error importing keyfile - " \o e :
     e \in {MacMismatch, "TypeError", "ENOENT", "SyntaxError",
            "Must provide password and salt to derive a key"}}

\* C8, as claimed: construction from a keyfile succeeds, Unlocked and holding
\* the recovered private key, only when recover succeeds on the file; when
\* the file is missing or malformed or recover fails, construction fails with
\* the import error and there is no instance.
C8_ImportAllOrNothing ==
  (last.op = "new" /\ built.how = "import" /\ Truthy(built.password)) =>
    IF built.file.kind = "json" /\ built.file.json.t = "object" /\ ImportRecover.ok
    THEN last.ok /\ km.alive /\ ~km.isLocked /\ km.sk = ImportRecover.val
    ELSE ~last.ok /\ ~km.alive /\ last.err \in ImportErrors

\* C9, as claimed: every constructed KeyManager is Unlocked with a public key
\* set and the matching private key held, and getKeyStorage never fails with
\* the uninitialized-key error.
C9_NoUninitialized ==
  /\ (last.op = "new" /\ last.ok) =>
       /\ ~km.isLocked
       /\ Truthy(km.pk)
       /\ km.sk.t = "buffer"
       /\ km.pk = Str(Base58encode(PublicOf(km.sk.v)))
  /\ last.op = "getKeyStorage" => last.err # KeyUninitialized

\* C10, as claimed: construction with a password and no keyPath, with the
\* default or any caller-supplied constants, ends Unlocked holding the
\* generated private key, the record carrying the generated public key.
C10_GenerateEndsUnlocked ==
  (last.op = "new" /\ built.how = "generate" /\ Truthy(built.password)) =>
    /\ last.ok
    /\ ~km.isLocked
    /\ km.sk = built.key.privateKey
    /\ km.keyStorage.publicKeyId = Str(Base58encode(built.key.publicKey.v))

\* recover was called with the password and parameters marshal was given
RightPassword ==
  /\ recovered.called
  /\ recovered.password = made.password
  /\ recovered.kdfParams = made.kdfParams

\* the MAC recover recomputes differs from the one in the record
MacDiffers ==
  getMAC(deriveKey(recovered.password, str2buf(keyfile.crypto.kdfSalt, ""),
                   recovered.kdfParams).val,
         str2buf(keyfile.crypto.cipherText, "")).val
    # str2buf(keyfile.crypto.mac, "")

\* C4, as claimed: with the right password, recover of a record with one
\* character of cipherText, cipherIv or mac changed fails with the MAC
\* mismatch, and recover never returns a plaintext other than the private key.
C4_TamperDetected ==
  RightPassword =>
    /\ tampered \in TextFields =>
         (~recovered.res.ok /\ recovered.res.err = MacMismatch)
    /\ recovered.res.ok => recovered.res.val = made.key.privateKey

\* C4, amended: a change of cipherText or of mac fails with the MAC mismatch
\* and returns nothing; a change of cipherIv passes the MAC check, and recover
\* then returns what decrypt makes of the unchanged ciphertext under the
\* changed iv (or decrypt's error); a plaintext other than the private key
\* is returned only after a change of cipherIv.
C4_TamperDetectedExceptIv ==
  RightPassword =>
    /\ tampered \in {"cipherText", "mac"} =>
         /\ ~recovered.res.ok
         /\ recovered.res.err = MacMismatch
         /\ recovered.res.val = Undefined
    /\ tampered = "iv" =>
         recovered.res =
           After(<<"deriveKey", "getMAC">>,
                 decrypt(str2buf(keyfile.crypto.cipherText, ""), made.derivedKey,
                         str2buf(keyfile.crypto.cipherParams.iv, ""),
                         keyfile.crypto.cipher))
    /\ (recovered.res.ok /\ recovered.res.val # made.key.privateKey) =>
         tampered = "iv"

C4_Witness ==
  /\ RightPassword
  /\ tampered = "cipherText"
  /\ recovered.res.err = MacMismatch

\* C5: recover of a record marshal produced under password p, called with a
\* password other than p, fails with the MAC mismatch and returns no key
\* material.
C5_WrongPassword ==
  (recovered.called /\ tampered = "none" /\ recovered.password # made.password) =>
    /\ ~recovered.res.ok
    /\ recovered.res.err = MacMismatch
    /\ recovered.res.val = Undefined

C5_Witness ==
  /\ recovered.called
  /\ tampered = "none"
  /\ recovered.password # made.password
  /\ recovered.kdfParams = made.kdfParams
  /\ recovered.res.err = MacMismatch

\* C6: recover with password p and the kdfParams marshal's key was derived
\* with returns exactly the private key that was marshalled.
C6_RoundTrip ==
  (RightPassword /\ tampered = "none") =>
    /\ recovered.res.ok
    /\ recovered.res.val = made.key.privateKey

C6_Witness ==
  /\ RightPassword
  /\ tampered = "none"
  /\ recovered.res.ok
  /\ Base58decode(keyfile.crypto.cipherText.v)[1] = 0

\* C7: in recover the MAC is computed and compared before decrypt is reached;
\* when the recomputed MAC differs from the record's, decrypt is not called
\* and the call fails with the MAC mismatch, returning nothing.
C7_MacBeforeDecrypt ==
  recovered.called =>
    LET calls == recovered.res.calls
    IN  /\ \A i \in 1 .. Len(calls) :
             calls[i] = "decrypt" => \E j \in 1 .. (i - 1) : calls[j] = "getMAC"
        /\ MacDiffers =>
             /\ \A i \in 1 .. Len(calls) : calls[i] # "decrypt"
             /\ ~recovered.res.ok
             /\ recovered.res.err = MacMismatch
             /\ recovered.res.val = Undefined

C7_Witness ==
  /\ recovered.called
  /\ MacDiffers
  /\ recovered.res.err = MacMismatch
  /\ recovered.res.calls = <<"deriveKey", "getMAC">>

\* the scrypt parameters a constructor given these constants recovers with
ScryptOf(constants) ==
  IF constants.t # "undefined" THEN constants.scrypt ELSE defaultOptions.scrypt

\* the second instance was just constructed from the file the first one
\* exported, with a non-empty password and the first one's scrypt parameters
ImportedExport ==
  /\ last.op = "new" /\ last.on = "peer"
  /\ last.arg.file.kind = "json"
  /\ disk.by = "km"
  /\ built.how = "generate" /\ Truthy(built.password)
  /\ Truthy(last.arg.password)
  /\ ScryptOf(last.arg.constants) = km.constants.scrypt

\* C11: after generating a KeyManager with password p and exporting it,
\* constructing a KeyManager from that file with p gives an Unlocked instance
\* with the same public key whose signatures are those of the generated
\* private key; constructing from that file with another password fails with
\* the MAC mismatch and gives no instance.
C11_EndToEnd ==
  ImportedExport =>
    IF last.arg.password = built.password
    THEN /\ last.ok /\ peer.alive /\ ~peer.isLocked
         /\ peer.pk = km.pk
         /\ peer.pk = Str(Base58encode(built.key.publicKey.v))
         /\ \A m \in Messages, random \in Rand :
              sign(peer, Str(m), random) =
                curve25519sign(built.key.privateKey, Buf(m), random)
    ELSE /\ ~last.ok /\ ~peer.alive
         /\ last.err = "Error importing keyfile - " \o MacMismatch

C11_Witness ==
  /\ ImportedExport
  /\ last.arg.password = built.password
  /\ last.ok
  /\ peer.pk = Str(Base58encode(built.key.publicKey.v))
  /\ peer.sk = built.key.privateKey

AlreadyUnlocked == "The key is already unlocked"
KeyManagerLocked == "Key manager is currently locked. Please unlock and try again."
PasswordRequired == "A password must be provided at initialization"

\* C12: unlockKey called on an Unlocked instance fails with the
\* already-unlocked error whatever password it is given, and the instance
\* stays Unlocked.
C12_AlreadyUnlocked ==
  (last.op = "unlockKey" /\ ~last.before.isLocked) =>
    /\ ~last.ok
    /\ last.err = AlreadyUnlocked
    /\ ~km.isLocked

C12_Witness ==
  /\ last.op = "unlockKey"
  /\ ~last.before.isLocked
  /\ last.arg # built.password
  /\ last.err = AlreadyUnlocked
  /\ ~km.isLocked

\* C13: getKeyStorage returns the keystore record only when the instance is
\* Unlocked and has a public key; when Locked it fails with the key-locked
\* error, whether or not a public key is set, and when Unlocked without a
\* public key it fails with the uninitialized-key error.
C13_GetKeyStorage ==
  last.op = "getKeyStorage" =>
    IF last.before.isLocked
    THEN ~last.ok /\ last.err = KeyManagerLocked
    ELSE IF ~Truthy(last.before.pk)
    THEN ~last.ok /\ last.err = KeyUninitialized
    ELSE last.ok /\ last.val = km.keyStorage.publicKeyId

C13_Witness ==
  /\ last.op = "getKeyStorage"
  /\ last.before.isLocked
  /\ ~Truthy(last.before.pk)
  /\ last.err = KeyManagerLocked

\* C14, as claimed: exportToFile called on a Locked instance fails with the
\* key-locked error, and no file is written.
C14_ExportWhileLocked ==
  (last.op = "exportToFile" /\ last.before.isLocked) =>
    /\ ~last.ok
    /\ last.err = KeyManagerLocked
    /\ last.val = Undefined

\* C15: exportToFile leaves the instance as it was (lock state, password,
\* private key, keystore record), whether it returns or throws.
C15_ExportKeepsInstance ==
  last.op = "exportToFile" => km = last.before

C15_Witness ==
  /\ last.op = "exportToFile"
  /\ last.ok
  /\ disk.kind = "file"
  /\ ~km.isLocked
  /\ km = last.before

\* C16: lockKey never fails and ends Locked, from Unlocked and from Locked
\* alike, and changes nothing of the instance but the lock flag.
C16_LockKey ==
  last.op = "lockKey" =>
    /\ last.ok
    /\ km.isLocked
    /\ km = [last.before EXCEPT !.isLocked = TRUE]

C16_Witness ==
  /\ last.op = "lockKey"
  /\ last.before.isLocked
  /\ last.ok
  /\ km.isLocked

\* C17: a call on the instance that fails (sign, getKeyStorage, exportToFile,
\* unlockKey) leaves lock state, password, private key and keystore record
\* as they were before the call, and a failing exportToFile writes no file.
C17_NoPartialSuccess ==
  (last.op \in {"sign", "getKeyStorage", "exportToFile", "unlockKey"} /\ ~last.ok) =>
    /\ km = last.before
    /\ last.op = "exportToFile" => last.val = Undefined

C17_Witness ==
  /\ last.op = "unlockKey"
  /\ ~last.ok
  /\ last.err = InvalidPassword
  /\ km = last.before
  /\ km.isLocked

\* the public key construction set
ConstructedPk ==
  IF built.how = "generate" THEN Str(Base58encode(built.key.publicKey.v))
  ELSE built.file.json.publicKeyId

\* C18: the public key of an instance is the one construction set, after
\* every sequence of lockKey, unlockKey, sign, getKeyStorage and exportToFile
\* calls, and it is the publicKeyId of the instance's keystore record.
C18_PublicKeyImmutable ==
  km.alive =>
    /\ km.pk = ConstructedPk
    /\ km.pk = km.keyStorage.publicKeyId
    /\ last.op # "new" => km.pk = last.before.pk

C18_Witness ==
  /\ km.alive
  /\ last.op = "lockKey"
  /\ Truthy(km.pk)
  /\ km.pk = ConstructedPk

\* C19, as claimed: construction with no non-empty password (an object with
\* an empty password, or a bare empty string) fails with the
\* password-required error, and no key is generated.
C19_PasswordRequired ==
  (last.op = "new" /\ last.on = "km" /\ ~Truthy(built.password)) =>
    /\ ~last.ok
    /\ last.err = PasswordRequired
    /\ ~km.alive

\* C20: a call on one instance leaves the other instance's lock state,
\* password, private key and keystore record as they were.
C20_NoSharedState ==
  [][/\ last'.on = "km" => peer' = peer
     /\ last'.on = "peer" => km' = km]_vars

C20_Witness ==
  /\ km.alive /\ peer.alive
  /\ last.on = "peer" /\ last.op = "unlockKey" /\ last.ok
  /\ km.isLocked /\ ~peer.isLocked
  /\ km.password = peer.password

\* the error encrypt and decrypt throw for a cipher the provider lacks
NotAvailable(cipher) == cipher \o " is not available"

\* marshal was asked for a cipher the provider does not offer
MarshalUnavailable ==
  (made # NotMade /\ made.cipher \notin Ciphers) =>
    /\ ~made.ok
    /\ made.err = NotAvailable(made.cipher)
    /\ made.calls = <<>>
    /\ keyfile.t # "object"

\* C21, as claimed: marshal with a cipher the provider does not offer, and
\* recover of a record naming such a cipher, fail with the
\* '<cipher> is not available' error and no other, no cipher operation made.
C21_UnsupportedCipher ==
  /\ MarshalUnavailable
  /\ (recovered.called /\ keyfile.crypto.cipher \notin Ciphers) =>
       /\ ~recovered.res.ok
       /\ recovered.res.err = NotAvailable(keyfile.crypto.cipher)

\* C21, amended: marshal with such a cipher fails with the not-available
\* error before any cipher operation; recover of a record naming such a
\* cipher never reaches a cipher operation and fails with the not-available
\* error when the record's MAC verifies under the given password, and with
\* the MAC mismatch, which is checked first, when it does not.
C21_UnsupportedCipherAfterMac ==
  /\ MarshalUnavailable
  /\ (recovered.called /\ keyfile.crypto.cipher \notin Ciphers) =>
       /\ ~recovered.res.ok
       /\ recovered.res.val = Undefined
       /\ \A i \in 1 .. Len(recovered.res.calls) : recovered.res.calls[i] # "decrypt"
       /\ recovered.res.err = IF MacDiffers THEN MacMismatch
                              ELSE NotAvailable(keyfile.crypto.cipher)

C21_Witness ==
  /\ recovered.called
  /\ keyfile.crypto.cipher \notin Ciphers
  /\ ~MacDiffers
  /\ recovered.res.err = NotAvailable(keyfile.crypto.cipher)

C23_SignatureValidity ==
  (last.op = "verify" /\ last.arg.cb = "none") =>
    /\ last.ok
    /\ last.val = Bool(/\ last.arg.publicKey = km.pk
                       /\ last.arg.message = last.arg.signed)

\* C24, as claimed: verify called with a callback passes to the callback the
\* boolean the call without a callback returns for the same arguments.
C24_CallbackAgrees ==
  (last.op = "verify" /\ last.arg.cb = "function") =>
    /\ last.ok
    /\ last.val = verify(last.arg.publicKey, last.arg.message, last.arg.signature,
                         "none").val

\* ------------------------------------------------------------ Brambl ------
\* new Brambl(password) with a password, and new Brambl({...}) with a
\* password and configuration objects, or nothing, for the sub-modules
MinimalParams(params) ==
  /\ params.KeyManager.kind # "instance"
  /\ params.Requests.kind # "instance"
  /\ Falsy(params.networkPrefix)
  /\ \/ params.t = "string" /\ params.v # <<>>
     \/ params.t = "object"
        /\ (Truthy(params.password) \/ Truthy(params.KeyManager.password))

\* C25: constructing a Brambl from a password alone, or from configuration
\* objects rather than instances, succeeds: its requests is a new Requests
\* instance for the default local provider (or the configured url), its
\* keyManager a new KeyManager holding a fresh key, and both carry the
\* Brambl's network prefix.
C25_MinimalConstruction ==
  (call.op = "new Brambl" /\ MinimalParams(call.args)) =>
    /\ call.state = "returned"
    /\ brambl.alive
    /\ brambl.requests.alive
    /\ brambl.requests.networkPrefix = brambl.networkPrefix
    /\ brambl.requests.url = Or(call.args.Requests.url, Text("http://localhost:9085/"))
    /\ KeyManagerOf(brambl).alive
    /\ Truthy(KeyManagerOf(brambl).pk)

\* C26: Brambl.Requests(url, apiKey) returns a Requests instance whose
\* requests go to the given url, or to http://localhost:9085/ when none is
\* given, with the given apiKey, or topl_the_world! when none is given, in
\* the x-api-key header.
C26_StaticRequests ==
  call.op = "Brambl.Requests" =>
    /\ call.state = "returned"
    /\ requests.alive
    /\ requests.url = Or(call.args.url, Text("http://localhost:9085/"))
    /\ requests.headers.xApiKey = Or(call.args.apiKey, Text("topl_the_world!"))

\* C27: transaction rejects with 'Invalid transaction method', sending
\* nothing, for a method outside validTxMethods; for a method of
\* validTxMethods it calls the Requests method of that name, then the key
\* manager's sign, then broadcastTx, in that order, and the first request it
\* sends is that method's.
C27_Transaction ==
  call.op = "transaction" =>
    /\ call.args.method \notin validTxMethods =>
         /\ call.state = "rejected"
         /\ call.err = "Invalid transaction method"
         /\ call.sent = <<>>
         /\ call.steps = <<>>
    /\ call.args.method \in validTxMethods =>
         /\ \E n \in 1 .. 3 :
              call.steps = SubSeq(<<call.args.method, "sign", "broadcastTx">>, 1, n)
         /\ call.sent # <<>> => call.sent[1].body.method = call.args.method

\* the message of the first check of transferPolys that params fails, ""
\* when it passes them all; a zero amount counts as an amount or not
PolyError(params, zeroIsAnAmount) ==
  IF params.t # "object" THEN ParamsRequired
  ELSE IF params.recipient.t # "string" \/ params.recipient.s = ""
  THEN RecipientRequired
  ELSE IF params.amount.t # "number" \/ (params.amount.n = 0 /\ ~zeroIsAnAmount)
  THEN AmountRequired
  ELSE IF params.fee.t # "number" THEN FeeRequired
  ELSE IF params.fee.n < 0 THEN FeeNegative
  ELSE ""

====
